---- MODULE Spec2Model ----
(***************************************************************************)
(* faiss_server.py: a Flask service holding a FAISS vector index and a     *)
(* parallel metadata list, fed by /insert_json_batch, read by /query and   *)
(* /export/database_json, with two background timer threads.               *)
(*                                                                         *)
(* Every request handler runs in its own thread (Flask's threaded server); *)
(* a step of the model is one access to the shared state, the local        *)
(* computation around it included.                                         *)
(***************************************************************************)
EXTENDS Integers, Sequences, FiniteSets, TLC

(* ------------------------------ bounds -------------------------------- *)
MaxRequests == 2
MaxBatch == 2
MaxK == 2
StartTime == 100
Horizon == 70
TickStep == 10

(* ------------------------- program constants -------------------------- *)
PoolInterval == 10
IdleLimit == 30
SaveInterval == 60
MonitorThread == 0

\* Two handler threads serve /insert_json_batch at the same time.
Threads == {1, 2}

(* ------------------------------ values -------------------------------- *)
\* The "element" values a client can send: JSON numbers and JSON strings.
\* repr is what Python's str() prints for the value.
ElementValues ==
    { [type |-> "int", repr |-> "1"],
      [type |-> "str", repr |-> "1"],
      [type |-> "int", repr |-> "2"] }

Equipment == [element : ElementValues]

RECURSIVE SeqsUpTo(_, _)
SeqsUpTo(S, n) ==
    IF n = 0 THEN { <<>> }
    ELSE LET shorter == SeqsUpTo(S, n - 1)
         IN  shorter \cup { Append(s, x) : s \in shorter, x \in S }

Batches == SeqsUpTo(Equipment, MaxBatch)

\* str(e.get("element")): the printed form; the JSON type is forgotten.
Str(x) == x.repr

ElementId(e) == Str(e.element)

\* The f-string renders the element with str() as well.
format_equipment_text(e) == [element_id |-> Str(e.element)]

\* One vector per text, in the order of the texts.
get_embedding_batch(texts) ==
    [i \in DOMAIN texts |-> [embedding_of |-> texts[i]]]

\* A dict that keeps the first value of a key seen again.
DictSet_KeepFirst(d, k, v) ==
    IF \E i \in DOMAIN d : d[i].key = k
    THEN d
    ELSE Append(d, [key |-> k, value |-> v])

\* unique_equipment[element_id] = e on a dict that keeps insertion order:
\* a key seen again keeps its place and takes the new value.
DictSet(d, k, v) ==
    IF \E i \in DOMAIN d : d[i].key = k
    THEN [i \in DOMAIN d |-> IF d[i].key = k THEN [key |-> k, value |-> v] ELSE d[i]]
    ELSE Append(d, [key |-> k, value |-> v])

RECURSIVE UniqueEquipment(_)
UniqueEquipment(equipment_list) ==
    IF equipment_list = <<>> THEN <<>>
    ELSE LET n == Len(equipment_list)
             e == equipment_list[n]
         IN  DictSet(UniqueEquipment(SubSeq(equipment_list, 1, n - 1)), ElementId(e), e)

ExistingIds(store) == { ElementId(store[i]) : i \in DOMAIN store }

\* The batch deduplicated but not filtered against the store.
NewEquipment_Unfiltered(equipment_list, store) ==
    LET unique == UniqueEquipment(equipment_list)
    IN  [i \in DOMAIN unique |-> unique[i].value]

\* Lines 192-198: the values of unique_equipment whose key the store lacks.
NewEquipment(equipment_list, store) ==
    LET unique == UniqueEquipment(equipment_list)
        kept   == SelectSeq(unique, LAMBDA kv : kv.key \notin ExistingIds(store))
    IN  [i \in DOMAIN kept |-> kept[i].value]

(* --------------------------- responses -------------------------------- *)
NoResponse ==
    [status |-> "none", code |-> 0, inserted |-> 0, total_in_db |-> 0, pool_size |-> 0]

DuplicateResponse ==
    [status |-> "duplicate", code |-> 409, inserted |-> 0, total_in_db |-> 0, pool_size |-> 0]

ErrorResponse ==
    [status |-> "error", code |-> 500, inserted |-> 0, total_in_db |-> 0, pool_size |-> 0]

OkResponse(inserted, total, pool) ==
    [status |-> "ok", code |-> 200, inserted |-> inserted, total_in_db |-> total,
     pool_size |-> pool]

\* /query: the records of jsonify(results), or the error of the except.
NoResults == [status |-> "none", code |-> 0, records |-> <<>>]
Results(records) == [status |-> "ok", code |-> 200, records |-> records]
QueryError == [status |-> "error", code |-> 500, records |-> <<>>]

\* /export/database_json.
NoExport == [status |-> "none", code |-> 0]
EmptyDatabase == [status |-> "empty", code |-> 400]
FileSent == [status |-> "sent", code |-> 200]

\* complete_data["metadata"]: the three fields read from the shared state.
NoData == [total_equipment |-> 0, faiss_index_size |-> 0, data_consistency |-> FALSE]

(* ------------------------------ FAISS --------------------------------- *)
\* The label IndexFlatL2.search gives a result slot that has no neighbour.
NoNeighbour == -1

\* index.search(x, k) on an index of n vectors: k labels, the min(n, k)
\* nearest positions first (which ones depends on the vectors and the
\* query), the remaining slots filled with NoNeighbour.
SearchResults(n, k) ==
    LET found == IF n < k THEN n ELSE k
    IN  { I \in [1..k -> (0..(n - 1)) \cup {NoNeighbour}] :
            /\ \A j \in 1..found : I[j] # NoNeighbour
            /\ \A j \in (found + 1)..k : I[j] = NoNeighbour
            /\ \A j1, j2 \in 1..found : j1 # j2 => I[j1] # I[j2] }

(* ------------------------------ Python -------------------------------- *)
\* list[i]: a negative i counts from the end; outside the list is IndexError.
InRange(list, i) == -Len(list) <= i /\ i < Len(list)
GetItem(list, i) == IF i >= 0 THEN list[i + 1] ELSE list[Len(list) + i + 1]

(* ------------------------------ locks --------------------------------- *)
Unlocked == [held |-> FALSE, by |-> MonitorThread]
HeldBy(t) == [held |-> TRUE, by |-> t]

(* ------------------------------ state --------------------------------- *)
VARIABLES
    index,            \* the vectors of the FAISS index, in the order added
    metadata_store,   \* the list of equipment records
    batch_pool,       \* the staging pool
    last_append_time, \* last_append_time[0]
    batch_pool_lock,  \* threading.Lock: Unlocked or HeldBy(thread)
    now,              \* time.time()
    pc,               \* where each handler thread of /insert_json_batch is
    equipment_list,   \* request.json of the handler's request
    new_equipment,    \* the handler's local new_equipment
    response,         \* what the handler returns
    nreq,             \* requests accepted so far
    pm_pc, pm_wake,   \* pool_monitor: position, end of its sleep
    ps_pc, ps_wake,   \* periodic_save: position, end of its sleep
    index_file,       \* faiss.index on disk
    meta_file,        \* metadata.pkl on disk
    q_pc,             \* where the handler thread of /query is
    q_k,              \* its top_k
    q_I,              \* I[0] of index.search: positions from 0, nearest first
    q_response,       \* what it returns
    x_pc,             \* where the handler thread of /export/database_json is
    x_data,           \* the fields of complete_data evaluated so far
    export_file,      \* exports/complete_database.json on disk
    x_response        \* what it returns

shared == <<index, metadata_store, batch_pool, last_append_time>>
locals == <<pc, equipment_list, new_equipment, response, nreq>>
monitor == <<pm_pc, pm_wake>>
saver == <<ps_pc, ps_wake, index_file, meta_file>>
query == <<q_pc, q_k, q_I, q_response>>
export == <<x_pc, x_data, export_file, x_response>>
readers == <<query, export>>
vars == <<index, metadata_store, batch_pool, last_append_time, batch_pool_lock, now,
          pc, equipment_list, new_equipment, response, nreq,
          pm_pc, pm_wake, ps_pc, ps_wake, index_file, meta_file,
          q_pc, q_k, q_I, q_response, x_pc, x_data, export_file, x_response>>

NoFile == [exists |-> FALSE, data |-> <<>>]
File(data) == [exists |-> TRUE, data |-> data]

\* A fresh start: no faiss.index and no metadata.pkl on disk.
Init ==
    /\ index = <<>>
    /\ metadata_store = <<>>
    /\ batch_pool = <<>>
    /\ last_append_time = 0
    /\ batch_pool_lock = Unlocked
    /\ now = StartTime
    /\ pc = [t \in Threads |-> "idle"]
    /\ equipment_list = [t \in Threads |-> <<>>]
    /\ new_equipment = [t \in Threads |-> <<>>]
    /\ response = [t \in Threads |-> NoResponse]
    /\ nreq = 0
    /\ pm_pc = "sleep"
    /\ pm_wake = StartTime + PoolInterval
    /\ ps_pc = "sleep"
    /\ ps_wake = StartTime + SaveInterval
    /\ index_file = NoFile
    /\ meta_file = NoFile
    /\ q_pc = "idle"
    /\ q_k = 0
    /\ q_I = <<>>
    /\ q_response = NoResults
    /\ x_pc = "idle"
    /\ x_data = NoData
    /\ export_file = NoFile
    /\ x_response = NoExport

(* ----------------------- /insert_json_batch --------------------------- *)
\* Lines 190-201: the request arrives, is deduplicated and filtered against
\* the identifiers read from metadata_store; an empty remainder returns 409.
Filter(t, batch) ==
    /\ pc[t] = "idle"
    /\ nreq < MaxRequests
    /\ nreq' = nreq + 1
    /\ equipment_list' = [equipment_list EXCEPT ![t] = batch]
    /\ LET fresh == NewEquipment(batch, metadata_store)
       IN  /\ new_equipment' = [new_equipment EXCEPT ![t] = fresh]
           /\ IF fresh = <<>>
              THEN /\ response' = [response EXCEPT ![t] = DuplicateResponse]
                   /\ pc' = [pc EXCEPT ![t] = "done"]
              ELSE /\ response' = [response EXCEPT ![t] = NoResponse]
                   /\ pc' = [pc EXCEPT ![t] = "embed"]
    /\ UNCHANGED <<shared, batch_pool_lock, now, monitor, saver, readers>>

\* A provider called once per record, its vector added at once, failing
\* after the first record.
EmbedFail_PartialCommit(t) ==
    /\ pc[t] = "embed"
    /\ index' = index \o get_embedding_batch(<<format_equipment_text(new_equipment[t][1])>>)
    /\ response' = [response EXCEPT ![t] = ErrorResponse]
    /\ new_equipment' = [new_equipment EXCEPT ![t] = <<>>]
    /\ pc' = [pc EXCEPT ![t] = "done"]
    /\ UNCHANGED <<metadata_store, batch_pool, last_append_time, batch_pool_lock, now,
                   equipment_list, nreq, monitor, saver, readers>>

\* Line 204 raises: the handler has no try, Flask answers 500.
EmbedFail(t) ==
    /\ pc[t] = "embed"
    /\ response' = [response EXCEPT ![t] = ErrorResponse]
    /\ new_equipment' = [new_equipment EXCEPT ![t] = <<>>]
    /\ pc' = [pc EXCEPT ![t] = "done"]
    /\ UNCHANGED <<shared, batch_pool_lock, now, equipment_list, nreq, monitor, saver, readers>>

\* Lines 203-206: the provider answers with one vector per text, and
\* index.add(faiss_vectors) appends them.
IndexAdd(t) ==
    /\ pc[t] = "embed"
    /\ LET texts == [i \in DOMAIN new_equipment[t] |->
                        format_equipment_text(new_equipment[t][i])]
           vectors == get_embedding_batch(texts)
       IN  index' = index \o vectors
    /\ pc' = [pc EXCEPT ![t] = "extend"]
    /\ UNCHANGED <<metadata_store, batch_pool, last_append_time, batch_pool_lock, now,
                   equipment_list, new_equipment, response, nreq, monitor, saver, readers>>

\* metadata_store.append(new_equipment[0]) in place of the extend.
StoreExtend_AppendFirst(t) ==
    /\ pc[t] = "extend"
    /\ metadata_store' = Append(metadata_store, new_equipment[t][1])
    /\ pc' = [pc EXCEPT ![t] = "lock"]
    /\ UNCHANGED <<index, batch_pool, last_append_time, batch_pool_lock, now,
                   equipment_list, new_equipment, response, nreq, monitor, saver, readers>>

\* Line 207: metadata_store.extend(new_equipment).
StoreExtend(t) ==
    /\ pc[t] = "extend"
    /\ metadata_store' = metadata_store \o new_equipment[t]
    /\ pc' = [pc EXCEPT ![t] = "lock"]
    /\ UNCHANGED <<index, batch_pool, last_append_time, batch_pool_lock, now,
                   equipment_list, new_equipment, response, nreq, monitor, saver, readers>>

\* Lines 209-210: with batch_pool_lock: batch_pool.extend(new_equipment).
\* A thread that finds the lock taken waits: its step changes nothing.
PoolExtend(t) ==
    /\ pc[t] = "lock"
    /\ IF batch_pool_lock.held
       THEN UNCHANGED vars
       ELSE /\ batch_pool_lock' = HeldBy(t)
            /\ batch_pool' = batch_pool \o new_equipment[t]
            /\ pc' = [pc EXCEPT ![t] = "stamp"]
            /\ UNCHANGED <<index, metadata_store, last_append_time, now, equipment_list,
                           new_equipment, response, nreq, monitor, saver, readers>>

\* Line 211 and the end of the with block.
Stamp(t) ==
    /\ pc[t] = "stamp"
    /\ last_append_time' = now
    /\ batch_pool_lock' = Unlocked
    /\ pc' = [pc EXCEPT ![t] = "respond"]
    /\ UNCHANGED <<index, metadata_store, batch_pool, now, equipment_list,
                   new_equipment, response, nreq, monitor, saver, readers>>

\* Lines 213-218.
Respond(t) ==
    /\ pc[t] = "respond"
    /\ response' = [response EXCEPT ![t] =
           OkResponse(Len(new_equipment[t]), Len(metadata_store), Len(batch_pool))]
    /\ pc' = [pc EXCEPT ![t] = "done"]
    /\ UNCHANGED <<shared, batch_pool_lock, now, equipment_list, new_equipment,
                   nreq, monitor, saver, readers>>

\* The response is sent; the thread is free for the next request.
Finish(t) ==
    /\ pc[t] = "done"
    /\ pc' = [pc EXCEPT ![t] = "idle"]
    /\ equipment_list' = [equipment_list EXCEPT ![t] = <<>>]
    /\ new_equipment' = [new_equipment EXCEPT ![t] = <<>>]
    /\ response' = [response EXCEPT ![t] = NoResponse]
    /\ UNCHANGED <<shared, batch_pool_lock, now, nreq, monitor, saver, readers>>

(* --------------------------- pool_monitor ----------------------------- *)
\* Line 164: time.sleep(10) is over.
MonitorWake ==
    /\ pm_pc = "sleep"
    /\ now >= pm_wake
    /\ pm_pc' = "acquire"
    /\ UNCHANGED <<shared, batch_pool_lock, now, locals, pm_wake, saver, readers>>

\* Line 165: with batch_pool_lock.
MonitorAcquire ==
    /\ pm_pc = "acquire"
    /\ IF batch_pool_lock.held
       THEN UNCHANGED vars
       ELSE /\ batch_pool_lock' = HeldBy(MonitorThread)
            /\ pm_pc' = "check"
            /\ UNCHANGED <<shared, now, locals, pm_wake, saver, readers>>

\* Line 166.
MonitorCheck ==
    /\ pm_pc = "check"
    /\ pm_pc' = IF batch_pool # <<>> /\ now - last_append_time > IdleLimit
                THEN "save_and_clear_pool"
                ELSE "release"
    /\ UNCHANGED <<shared, batch_pool_lock, now, locals, pm_wake, saver, readers>>

\* Lines 154-159, called from line 167 with the lock already held by the
\* caller: threading.Lock is not reentrant, the acquire waits for a release.
save_and_clear_pool ==
    /\ pm_pc = "save_and_clear_pool"
    /\ IF batch_pool_lock.held
       THEN UNCHANGED vars
       ELSE /\ batch_pool' = <<>>
            /\ pm_pc' = "release"
            /\ UNCHANGED <<index, metadata_store, last_append_time, batch_pool_lock, now,
                           locals, pm_wake, saver, readers>>

\* The end of the with block of line 165, and the next sleep.
MonitorRelease ==
    /\ pm_pc = "release"
    /\ batch_pool_lock' = Unlocked
    /\ pm_pc' = "sleep"
    /\ pm_wake' = now + PoolInterval
    /\ UNCHANGED <<shared, now, locals, saver, readers>>

(* --------------------------- periodic_save ---------------------------- *)
\* Line 175: time.sleep(60) is over.
SaverWake ==
    /\ ps_pc = "sleep"
    /\ now >= ps_wake
    /\ ps_pc' = "write_index"
    /\ UNCHANGED <<shared, batch_pool_lock, now, locals, monitor, ps_wake,
                   index_file, meta_file, readers>>

\* Line 177.
SaverWriteIndex ==
    /\ ps_pc = "write_index"
    /\ index_file' = File(index)
    /\ ps_pc' = "dump_metadata"
    /\ UNCHANGED <<shared, batch_pool_lock, now, locals, monitor, ps_wake, meta_file, readers>>

\* Lines 178-179.
SaverDumpMetadata ==
    /\ ps_pc = "dump_metadata"
    /\ meta_file' = File(metadata_store)
    /\ ps_pc' = "sleep"
    /\ ps_wake' = now + SaveInterval
    /\ UNCHANGED <<shared, batch_pool_lock, now, locals, monitor, index_file, readers>>

\* Lines 181-182: a failed write is logged and the loop goes on.
SaverFail ==
    /\ ps_pc \in {"write_index", "dump_metadata"}
    /\ ps_pc' = "sleep"
    /\ ps_wake' = now + SaveInterval
    /\ UNCHANGED <<shared, batch_pool_lock, now, locals, monitor, index_file, meta_file, readers>>

(* -------------------------------- time -------------------------------- *)
Tick ==
    /\ now < StartTime + Horizon
    /\ now' = now + TickStep
    /\ UNCHANGED <<shared, batch_pool_lock, locals, monitor, saver, readers>>

(* ------------------------------- /query ------------------------------- *)
\* Line 366: [metadata_store[i] for i in I[0] if i < len(metadata_store)].
Selected(I, store) == SelectSeq(I, LAMBDA i : i < Len(store))

MappedResults(I, store) ==
    LET sel == Selected(I, store)
    IN  [j \in DOMAIN sel |-> GetItem(store, sel[j])]

\* Lines 356-365: the query is embedded and the index searched.
QuerySearch(k) ==
    /\ q_pc = "idle"
    /\ \E I \in SearchResults(Len(index), k) :
           /\ q_I' = I
           /\ q_k' = k
    /\ q_pc' = "searched"
    /\ UNCHANGED <<shared, batch_pool_lock, now, locals, monitor, saver, q_response, export>>

\* Line 359 raises: the except of line 369 answers 500.
QueryEmbedFail ==
    /\ q_pc = "idle"
    /\ q_response' = QueryError
    /\ q_pc' = "done"
    /\ UNCHANGED <<shared, batch_pool_lock, now, locals, monitor, saver, q_k, q_I, export>>

\* Lines 366-370: the positions are mapped to records; an IndexError is
\* caught by the except and answered with 500.
QueryMap ==
    /\ q_pc = "searched"
    /\ LET sel == Selected(q_I, metadata_store)
       IN  q_response' =
               IF \A j \in DOMAIN sel : InRange(metadata_store, sel[j])
               THEN Results(MappedResults(q_I, metadata_store))
               ELSE QueryError
    /\ q_pc' = "done"
    /\ UNCHANGED <<shared, batch_pool_lock, now, locals, monitor, saver, q_k, q_I, export>>

QueryFinish ==
    /\ q_pc = "done"
    /\ q_pc' = "idle"
    /\ q_k' = 0
    /\ q_I' = <<>>
    /\ q_response' = NoResults
    /\ UNCHANGED <<shared, batch_pool_lock, now, locals, monitor, saver, export>>

(* ---------------------- /export/database_json ------------------------- *)
\* Lines 251-252: an empty store is refused with 400.
ExportCheck ==
    /\ x_pc = "idle"
    /\ IF Len(metadata_store) = 0
       THEN /\ x_response' = EmptyDatabase
            /\ x_pc' = "done"
       ELSE /\ x_response' = NoExport
            /\ x_pc' = "total_equipment"
    /\ UNCHANGED <<shared, batch_pool_lock, now, locals, monitor, saver, query,
                   x_data, export_file>>

\* Line 90: "total_equipment": len(metadata_store).
ExportTotalEquipment ==
    /\ x_pc = "total_equipment"
    /\ x_data' = [x_data EXCEPT !.total_equipment = Len(metadata_store)]
    /\ x_pc' = "faiss_index_size"
    /\ UNCHANGED <<shared, batch_pool_lock, now, locals, monitor, saver, query,
                   export_file, x_response>>

\* Line 91: "faiss_index_size": index.ntotal.
ExportIndexSize ==
    /\ x_pc = "faiss_index_size"
    /\ x_data' = [x_data EXCEPT !.faiss_index_size = Len(index)]
    /\ x_pc' = "data_consistency"
    /\ UNCHANGED <<shared, batch_pool_lock, now, locals, monitor, saver, query,
                   export_file, x_response>>

\* Line 95: "data_consistency": index.ntotal == len(metadata_store).
ExportConsistency ==
    /\ x_pc = "data_consistency"
    /\ x_data' = [x_data EXCEPT !.data_consistency = (Len(index) = Len(metadata_store))]
    /\ x_pc' = "dump"
    /\ UNCHANGED <<shared, batch_pool_lock, now, locals, monitor, saver, query,
                   export_file, x_response>>

\* Lines 101-105 and 256-265: the JSON is written and sent.
ExportDump ==
    /\ x_pc = "dump"
    /\ export_file' = File(x_data)
    /\ x_response' = FileSent
    /\ x_data' = NoData
    /\ x_pc' = "done"
    /\ UNCHANGED <<shared, batch_pool_lock, now, locals, monitor, saver, query>>

ExportFinish ==
    /\ x_pc = "done"
    /\ x_pc' = "idle"
    /\ x_response' = NoExport
    /\ UNCHANGED <<shared, batch_pool_lock, now, locals, monitor, saver, query,
                   x_data, export_file>>

(* ------------------------------ system -------------------------------- *)
Ingest ==
    \E t \in Threads :
        \/ \E batch \in Batches : Filter(t, batch)
        \/ EmbedFail(t)
        \/ IndexAdd(t)
        \/ StoreExtend(t)
        \/ PoolExtend(t)
        \/ Stamp(t)
        \/ Respond(t)
        \/ Finish(t)

PoolMonitor ==
    \/ MonitorWake
    \/ MonitorAcquire
    \/ MonitorCheck
    \/ save_and_clear_pool
    \/ MonitorRelease

PeriodicSave ==
    \/ SaverWake
    \/ SaverWriteIndex
    \/ SaverDumpMetadata
    \/ SaverFail

\* The handlers of /insert_json_batch alone: the two timer threads write
\* neither the index nor the store, /query and the exports write nothing.
Next == Ingest

Spec == Init /\ [][Next]_vars

(* ------------------------ the service with /query --------------------- *)
Query ==
    \/ \E k \in 1..MaxK : QuerySearch(k)
    \/ QueryEmbedFail
    \/ QueryMap
    \/ QueryFinish

QueryNext == Ingest \/ Query

QuerySpec == Init /\ [][QueryNext]_vars

(* ---------------- the service with /export/database_json -------------- *)
Export ==
    \/ ExportCheck
    \/ ExportTotalEquipment
    \/ ExportIndexSize
    \/ ExportConsistency
    \/ ExportDump
    \/ ExportFinish

ExportNext == Ingest \/ Export

ExportSpec == Init /\ [][ExportNext]_vars

(* ---------------------- the service with its timers ------------------- *)
\* One handler thread beside pool_monitor, periodic_save and the clock;
\* its batches hold one record, the timers never look into the records.
TimedIngest ==
    \/ \E e \in Equipment : Filter(1, <<e>>)
    \/ EmbedFail(1)
    \/ IndexAdd(1)
    \/ StoreExtend(1)
    \/ PoolExtend(1)
    \/ Stamp(1)
    \/ Respond(1)
    \/ Finish(1)

\* What a handler does once its request is in: the scheduler runs it.
Handler(t) ==
    \/ EmbedFail(t)
    \/ IndexAdd(t)
    \/ StoreExtend(t)
    \/ PoolExtend(t)
    \/ Stamp(t)
    \/ Respond(t)
    \/ Finish(t)

TimedNext == TimedIngest \/ PoolMonitor \/ PeriodicSave \/ Tick

\* Every thread that can run is run, a thread waiting for a lock gets it
\* if the lock is free again and again, and time passes.
Fairness ==
    /\ \A t \in Threads : SF_vars(Handler(t))
    /\ SF_vars(PoolMonitor)
    /\ WF_vars(PeriodicSave)
    /\ WF_vars(Tick)

FairSpec == Init /\ [][TimedNext]_vars /\ Fairness

(* ============================== claims ================================ *)
VectorOf(e) == get_embedding_batch(<<format_equipment_text(e)>>)[1]

Quiescent == \A t \in Threads : pc[t] \in {"idle", "done"}

BatchIds(batch) == { ElementId(batch[i]) : i \in DOMAIN batch }

RECURSIVE Sum(_, _)
Sum(f, S) ==
    IF S = {} THEN 0
    ELSE LET x == CHOOSE y \in S : TRUE
         IN  f[x] + Sum(f, S \ {x})

\* C1: once every /insert_json_batch request has completed, the record at
\* each position of the store is the record whose vector is at that
\* position of the index, whatever the interleaving was.
C1_PositionalAlignment ==
    Quiescent =>
        /\ Len(index) = Len(metadata_store)
        /\ \A i \in DOMAIN metadata_store : index[i] = VectorOf(metadata_store[i])

\* C2: the store grows by as many records as the request added vectors:
\* the index is ahead of the store by exactly the records of the requests
\* that are between their two appends, so the two sizes are equal whenever
\* no request is there.
C2_CountAlignment ==
    Len(index) = Len(metadata_store)
        + Sum([t \in Threads |-> IF pc[t] = "extend" THEN Len(new_equipment[t]) ELSE 0],
              Threads)

\* Two racing requests of two records each have both appended, and one
\* has been answered "ok".
C2_Witness ==
    \E t \in Threads :
        /\ response[t].status = "ok"
        /\ response[t].inserted = 2
        /\ \A u \in Threads : pc[u] # "extend"
        /\ Len(index) = Len(metadata_store)
        /\ Len(metadata_store) > 2

\* C3: every /insert_json_batch request whose embedding call has returned
\* eventually produces its "ok" response, whatever the timers do.
C3_IngestResponds ==
    \A t \in Threads : (pc[t] = "extend") ~> (response[t].status = "ok")

\* C4: a batch whose identifiers are all in the store already is answered
\* "duplicate", inserted 0, 409, straight from the filter (no embedding
\* call), and no step of that request changes the index, the store, the
\* pool or the last-append timestamp.
C4_AllDuplicateNoOp ==
    [][\A t \in Threads :
          /\ (pc[t] = "idle" /\ pc'[t] # "idle"
                 /\ BatchIds(equipment_list'[t]) \subseteq ExistingIds(metadata_store))
              => /\ pc'[t] = "done"
                 /\ response'[t].status = "duplicate"
                 /\ response'[t].inserted = 0
                 /\ response'[t].code = 409
                 /\ shared' = shared
          /\ (response[t].status = "duplicate" /\ pc'[t] # pc[t])
              => /\ pc'[t] = "idle"
                 /\ shared' = shared
      ]_vars

\* A non-empty batch of stored identifiers has been answered "duplicate".
C4_Witness ==
    \E t \in Threads :
        /\ response[t].status = "duplicate"
        /\ equipment_list[t] # <<>>
        /\ BatchIds(equipment_list[t]) \subseteq ExistingIds(metadata_store)
        /\ Len(index) = 2

\* fresh holds one record per identifier of the batch that the store does
\* not hold, each the last record of the batch with its identifier.
OnePerNewIdentifier(batch, store, fresh) ==
    /\ \A i, j \in DOMAIN fresh : i # j => ElementId(fresh[i]) # ElementId(fresh[j])
    /\ BatchIds(fresh) = BatchIds(batch) \ ExistingIds(store)
    /\ \A i \in DOMAIN fresh :
          \E n \in DOMAIN batch :
              /\ batch[n] = fresh[i]
              /\ \A m \in DOMAIN batch : m > n => ElementId(batch[m]) # ElementId(fresh[i])

\* C5: the request keeps one record per distinct identifier that the store
\* it read does not hold, the last of the batch for a repeated identifier;
\* it appends exactly these records to the store, reports their number as
\* inserted and the length of the store as total_in_db.
C5_MixedBatch ==
    [][\A t \in Threads :
          /\ (pc[t] = "idle" /\ pc'[t] # "idle")
              => OnePerNewIdentifier(equipment_list'[t], metadata_store, new_equipment'[t])
          /\ (pc[t] \in {"embed", "extend", "lock", "stamp", "respond"})
              => \/ new_equipment'[t] = new_equipment[t]
                 \/ response'[t].status = "error"
          /\ (pc[t] = "extend" /\ pc'[t] # "extend")
              => metadata_store' = metadata_store \o new_equipment[t]
          /\ (pc[t] # "extend" \/ pc'[t] = "extend")
              => \/ metadata_store' = metadata_store
                 \/ \E u \in Threads : pc[u] = "extend" /\ pc'[u] # "extend"
          /\ (pc[t] = "respond" /\ pc'[t] # "respond")
              => /\ response'[t].status = "ok"
                 /\ response'[t].inserted = Len(new_equipment[t])
                 /\ response'[t].total_in_db = Len(metadata_store')
      ]_vars

\* A batch of a stored and a new identifier has been answered.
C5_Witness ==
    \E t \in Threads :
        /\ response[t].status = "ok"
        /\ response[t].inserted = 1
        /\ response[t].total_in_db = Len(metadata_store)
        /\ Len(equipment_list[t]) = 2
        /\ BatchIds(equipment_list[t]) # BatchIds(new_equipment[t])

\* The records of the neighbours the index returned, nearest first, that
\* are positions of the store.
NeighbourRecords(I, store) ==
    LET valid == SelectSeq(I, LAMBDA i : 0 <= i /\ i < Len(store))
    IN  [j \in DOMAIN valid |-> store[valid[j] + 1]]

\* C6: the records /query returns are at most top_k, and they are the store
\* records at the positions the index returned as neighbours that lie
\* inside the store, in the order of the index.
C6_SearchResultMapping ==
    [][(q_pc = "searched" /\ q_pc' = "done" /\ q_response'.status = "ok")
          => /\ Len(q_response'.records) <= q_k
             /\ q_response'.records = NeighbourRecords(q_I, metadata_store)
      ]_vars

\* C7: a request whose embedding call fails is answered with an error, and
\* its steps (the filter, then the failed call) leave the index, the store,
\* the pool and the last-append timestamp as they were.
C7_NoPartialCommit ==
    [][\A t \in Threads :
          /\ (pc[t] = "embed" /\ pc'[t] = "done")
              => /\ response'[t].status = "error"
                 /\ response'[t].code = 500
                 /\ shared' = shared
          /\ (response'[t].status = "error" /\ pc'[t] # pc[t]) => pc[t] = "embed"
          /\ (pc'[t] = "embed" /\ pc[t] # "embed") => (pc[t] = "idle" /\ shared' = shared)
      ]_vars

\* A request of two records on a non-empty database has been answered
\* with the error of a failed embedding call.
C7_Witness ==
    \E t \in Threads :
        /\ response[t].status = "error"
        /\ Len(equipment_list[t]) = 2
        /\ metadata_store # <<>>
        /\ Len(index) = Len(metadata_store)

\* C8: an export of an empty store is refused with 400 and writes nothing;
\* in every JSON written, data_consistency is true exactly when the
\* faiss_index_size and the total_equipment of that JSON are equal.
C8_ExportConsistencyFlag ==
    /\ [](export_file.exists =>
            (export_file.data.data_consistency
                <=> (export_file.data.faiss_index_size = export_file.data.total_equipment)))
    /\ [][(x_pc = "idle" /\ x_pc' # "idle" /\ metadata_store = <<>>)
            => (x_response' = EmptyDatabase /\ export_file' = export_file)]_vars

\* C9: when pool_monitor finds the pool non-empty and idle for more than 30
\* time units, the pool is eventually empty, the lock released and the
\* monitor asleep until its next tick.
C9_PoolDrained ==
    (pm_pc = "check" /\ batch_pool # <<>> /\ now - last_append_time > IdleLimit)
        ~> (batch_pool = <<>> /\ ~batch_pool_lock.held /\ pm_pc = "sleep")

\* C10: no two records of the store share an identifier, whatever the
\* interleaving of the requests.
C10_IdentifierUniqueness ==
    \A i, j \in DOMAIN metadata_store :
        i # j => ElementId(metadata_store[i]) # ElementId(metadata_store[j])
====
